---- MODULE Spec2Model ----
(***************************************************************************)
(* show_cu_logs.py: load cu_logs.json, keep the first three run records,   *)
(* and print each as a header and a table of formatted measurements.       *)
(*                                                                         *)
(* Strings are sequences of one-character strings.  A JSON scalar is a     *)
(* record [t, n, s]: its Python type after json.load, its number and its   *)
(* text.  A float is a half-integer: n counts halves (2469 is 1234.5).     *)
(* A Python dict is a record whose DOMAIN is its key set; `entries`, whose *)
(* iteration order matters, is the sequence of its items in insertion      *)
(* order.                                                                  *)
(***************************************************************************)
EXTENDS Integers, Sequences, FiniteSets, TLC

VARIABLES file, data, idx, d, entries, rows, out, pc, err, num, ret

vars == <<file, data, idx, d, entries, rows, out, pc, err, num, ret>>

(***************************************************************************)
(* Bounds of the model.                                                    *)
(***************************************************************************)
MaxRuns == 4

MaxEntries == 3

MaxMant == 12

MaxExp == 6

(***************************************************************************)
(* JSON scalars as json.load returns them.                                 *)
(***************************************************************************)
JInt(n) == [t |-> "int", n |-> n, s |-> <<>>]

JFloat(h) == [t |-> "float", n |-> h, s |-> <<>>]

JStr(s) == [t |-> "str", n |-> 0, s |-> s]

JNull == [t |-> "NoneType", n |-> 0, s |-> <<>>]

(***************************************************************************)
(* Decimal conversion and the format mini-language's "," option.           *)
(***************************************************************************)
DigitChar(k) ==
    CASE k = 0 -> "0" [] k = 1 -> "1" [] k = 2 -> "2" [] k = 3 -> "3"
      [] k = 4 -> "4" [] k = 5 -> "5" [] k = 6 -> "6" [] k = 7 -> "7"
      [] k = 8 -> "8" [] k = 9 -> "9"

RECURSIVE Digits(_)
Digits(n) ==
    IF n < 10 THEN <<DigitChar(n)>>
    ELSE Digits(n \div 10) \o <<DigitChar(n % 10)>>

RECURSIVE GroupBy4(_)
GroupBy4(ds) ==
    IF Len(ds) <= 4 THEN ds
    ELSE GroupBy4(SubSeq(ds, 1, Len(ds) - 4)) \o <<",">>
           \o SubSeq(ds, Len(ds) - 3, Len(ds))

RECURSIVE Group(_)
Group(ds) ==
    IF Len(ds) <= 3 THEN ds
    ELSE Group(SubSeq(ds, 1, Len(ds) - 3)) \o <<",">>
           \o SubSeq(ds, Len(ds) - 2, Len(ds))

Abs(n) == IF n < 0 THEN -n ELSE n

Sign(n) == IF n < 0 THEN <<"-">> ELSE <<>>

\* format(x, ",") : the text, or the exception the type raises.
FormatComma(x) ==
    CASE x.t = "int" ->
           [err |-> "none", s |-> Sign(x.n) \o Group(Digits(Abs(x.n)))]
      [] x.t = "float" ->
           [err |-> "none",
            s |-> Sign(x.n) \o Group(Digits(Abs(x.n) \div 2)) \o <<".", "5">>]
      [] x.t = "str" -> [err |-> "ValueError", s |-> <<>>]
      [] OTHER -> [err |-> "TypeError", s |-> <<>>]

\* str(x), as print applies it to an argument.
Str(x) ==
    CASE x.t = "int" -> Sign(x.n) \o Digits(Abs(x.n))
      [] x.t = "float" -> Sign(x.n) \o Digits(Abs(x.n) \div 2) \o <<".", "5">>
      [] x.t = "str" -> x.s
      [] OTHER -> <<"N", "o", "n", "e">>

\* x > 0 : the comparison's value, or TypeError for a type int does not order.
GreaterThanZero(x) ==
    IF x.t \in {"int", "float"}
    THEN [err |-> "none", b |-> x.n > 0]
    ELSE [err |-> "TypeError", b |-> FALSE]

fmt(x) == FormatComma(x)

fmt_diff_signs_zero(x) ==
    LET c == GreaterThanZero(x)
        sign == IF x.n >= 0 THEN <<"+">> ELSE <<>>
        f == FormatComma(x)
    IN  IF c.err # "none" THEN [err |-> c.err, s |-> <<>>]
        ELSE IF f.err # "none" THEN f
        ELSE [err |-> "none", s |-> sign \o f.s]

fmt_diff(x) ==
    LET c == GreaterThanZero(x)
        sign == IF c.b THEN <<"+">> ELSE <<>>
        f == FormatComma(x)
    IN  IF c.err # "none" THEN [err |-> c.err, s |-> <<>>]
        ELSE IF f.err # "none" THEN f
        ELSE [err |-> "none", s |-> sign \o f.s]

(***************************************************************************)
(* sorted(entries.items()): tuples compare by their first component, the   *)
(* key, and str compares by code point; the keys of a dict are distinct,   *)
(* so the second component is never compared.                              *)
(***************************************************************************)
CodePoint(c) ==
    CASE c = "B" -> 66 [] c = "a" -> 97 [] c = "b" -> 98

RECURSIVE StrLess(_, _)
StrLess(s, t) ==
    IF t = <<>> THEN FALSE
    ELSE IF s = <<>> THEN TRUE
    ELSE IF Head(s) = Head(t) THEN StrLess(Tail(s), Tail(t))
    ELSE CodePoint(Head(s)) < CodePoint(Head(t))

ItemLess(p, q) == StrLess(p[1], q[1])

RECURSIVE Insert(_, _)
Insert(x, xs) ==
    IF xs = <<>> THEN <<x>>
    ELSE IF ItemLess(x, Head(xs)) THEN <<x>> \o xs
    ELSE <<Head(xs)>> \o Insert(x, Tail(xs))

unsorted(items) == items

RECURSIVE sorted(_)
sorted(items) ==
    IF items = <<>> THEN <<>>
    ELSE Insert(items[Len(items)], sorted(SubSeq(items, 1, Len(items) - 1)))

(***************************************************************************)
(* The list comprehension: one row per item, built in order; the first     *)
(* subscript or format that raises ends it.                                *)
(***************************************************************************)
\* The row with v.get("value", 0) for v["value"].
RowDefaults(item) ==
    LET k == item[1]
        v == item[2]
        value == IF "value" \in DOMAIN v THEN v.value ELSE JInt(0)
    IN  IF fmt(value).err # "none"
        THEN [err |-> fmt(value).err, row |-> <<>>]
        ELSE IF "diff" \notin DOMAIN v THEN [err |-> "KeyError", row |-> <<>>]
        ELSE IF fmt_diff(v.diff).err # "none"
        THEN [err |-> fmt_diff(v.diff).err, row |-> <<>>]
        ELSE [err |-> "none", row |-> <<k, fmt(value).s, fmt_diff(v.diff).s>>]

Row(item) ==
    LET k == item[1]
        v == item[2]
    IN  IF "value" \notin DOMAIN v THEN [err |-> "KeyError", row |-> <<>>]
        ELSE IF fmt(v.value).err # "none"
        THEN [err |-> fmt(v.value).err, row |-> <<>>]
        ELSE IF "diff" \notin DOMAIN v THEN [err |-> "KeyError", row |-> <<>>]
        ELSE IF fmt_diff(v.diff).err # "none"
        THEN [err |-> fmt_diff(v.diff).err, row |-> <<>>]
        ELSE [err |-> "none", row |-> <<k, fmt(v.value).s, fmt_diff(v.diff).s>>]

RECURSIVE RowsOf(_)
RowsOf(items) ==
    IF items = <<>> THEN [err |-> "none", rows |-> <<>>]
    ELSE LET r == Row(Head(items))
         IN  IF r.err # "none" THEN [err |-> r.err, rows |-> <<>>]
             ELSE LET rest == RowsOf(Tail(items))
                  IN  IF rest.err # "none" THEN rest
                      ELSE [err |-> "none", rows |-> <<r.row>> \o rest.rows]

Rows(e) == RowsOf(sorted(e))

(***************************************************************************)
(* What print writes: a line of text, or the table tabulate returned.      *)
(***************************************************************************)
Line(s) == [kind |-> "line", text |-> s]

BlankLine == Line(<<>>)

NotFoundMsg ==
    <<
       "F", "i", "l", "e", " ", "n", "o", "t", " ", "f", "o", "u", "n",
       "d", ".", " ", "N", "o", " ", "l", "o", "g", "s", " ", "t", "o",
       " ", "d", "i", "s", "p", "l", "a", "y", "."
    >>

RunAt == <<"#", "#", " ", "R", "u", "n", " ", "a", "t">>

Print2ArgsNoSep(a, b) == a \o b

\* print(a, b) writes its arguments' str separated by one space.
Print2Args(a, b) == a \o <<" ">> \o b

Headers == <<"Instruction", "Compute Units", "Diff">>

tabulate(rs, hs, tf) == [rows |-> rs, headers |-> hs, tablefmt |-> tf]

TableOut(rs) == [kind |-> "table", table |-> tabulate(rs, Headers, "github")]

KeepRuns == 3

Min(a, b) == IF a < b THEN a ELSE b

SliceShort(xs) == SubSeq(xs, 1, Min(KeepRuns - 1, Len(xs)))

NoSlice(xs) == xs

Slice(xs) == SubSeq(xs, 1, Min(KeepRuns, Len(xs)))

(***************************************************************************)
(* The inputs: what cu_logs.json may hold.                                 *)
(***************************************************************************)
T(i) == <<"T", DigitChar(i)>>

Keys == {<<"a">>, <<"b">>, <<"a", "b">>, <<"B">>}

M(v, df) == [value |-> JInt(v), diff |-> JInt(df)]

GoodMeas == {M(1000000, 42), M(200, -5), M(0, 0)}

OddMeas ==
    { [diff |-> JInt(1)],
      [value |-> JInt(1)],
      [value |-> JStr(<<"a">>), diff |-> JInt(1)],
      [value |-> JInt(1), diff |-> JStr(<<"a">>)],
      [value |-> JNull, diff |-> JInt(1)],
      [value |-> JInt(1), diff |-> JNull],
      [value |-> JFloat(2469), diff |-> JInt(1)],
      [value |-> JInt(1), diff |-> JFloat(3)],
      [value |-> JInt(1), diff |-> JFloat(-1)] }

KeyOrders ==
    { ks \in UNION { [1..n -> Keys] : n \in 0..Min(MaxEntries, Cardinality(Keys)) } :
        \A i, j \in DOMAIN ks : i # j => ks[i] # ks[j] }

GoodEntries ==
    UNION { { [i \in DOMAIN ks |-> <<ks[i], ms[i]>>] : ms \in [DOMAIN ks -> GoodMeas] } :
            ks \in KeyOrders }

OddEntries ==
    UNION { { [i \in DOMAIN ks |-> <<ks[i], IF i = j THEN m ELSE M(200, -5)>>] :
                j \in DOMAIN ks, m \in OddMeas } :
            ks \in KeyOrders }

Run(ts, e) == [timestamp |-> ts, entries |-> e]

Scenario == << <<<<"b">>, M(200, -5)>>, <<<<"a">>, M(1000000, 42)>> >>

G1 == Run(JStr(T(1)), Scenario)

G2 == Run(JStr(T(2)), <<>>)

G3 == Run(JStr(T(3)), << <<<<"a", "b">>, M(0, 0)>> >>)

NoEntries == [timestamp |-> JStr(T(4))]

NoTimestamp == [entries |-> Scenario]

BadValue == Run(JStr(T(5)), << <<<<"b">>, [diff |-> JInt(1)]>>, <<<<"a">>, M(0, 0)>> >>)

RunPalette == {G1, G2, G3, NoEntries, NoTimestamp, BadValue}

LongLogs == UNION { [1..n -> RunPalette] : n \in 0..MaxRuns }

RichLogs ==
    { pre \o <<Run(JStr(T(1)), e)>> :
        pre \in {<<>>, <<G2>>}, e \in GoodEntries \cup OddEntries }

OddTimestampLogs ==
    { <<Run(ts, Scenario)>> : ts \in {JInt(1234), JFloat(3), JNull, JStr(<<>>)} }

Logs == LongLogs \cup RichLogs \cup OddTimestampLogs

Absent == [exists |-> FALSE, valid |-> FALSE, content |-> <<>>]

Malformed == [exists |-> TRUE, valid |-> FALSE, content |-> <<>>]

Files ==
    {Absent, Malformed}
      \cup { [exists |-> TRUE, valid |-> TRUE, content |-> log] : log \in Logs }

(***************************************************************************)
(* The script, statement by statement.                                     *)
(***************************************************************************)
NoRet == [err |-> "none", s |-> <<>>]

Init ==
    /\ file \in Files
    /\ data = <<>>
    /\ idx = 0
    /\ d = <<>>
    /\ entries = <<>>
    /\ rows = <<>>
    /\ out = <<>>
    /\ pc = "open"
    /\ err = "none"
    /\ num = JNull
    /\ ret = NoRet

Raise(e) ==
    /\ err' = e
    /\ pc' = "error"

\* with open("cu_logs.json") as f: FileNotFoundError goes to the except clause.
Open ==
    /\ pc = "open"
    /\ pc' = IF file.exists THEN "load" ELSE "except"
    /\ UNCHANGED <<file, data, idx, d, entries, rows, out, err, num, ret>>

\* json.load under an except clause that catches every exception.
LoadCatchAll ==
    /\ pc = "load"
    /\ IF file.valid
       THEN /\ data' = file.content
            /\ pc' = "slice"
       ELSE /\ data' = data
            /\ pc' = "except"
    /\ UNCHANGED <<file, idx, d, entries, rows, out, err, num, ret>>

\* data = json.load(f): JSONDecodeError is not a FileNotFoundError.
Load ==
    /\ pc = "load"
    /\ IF file.valid
       THEN /\ data' = file.content
            /\ pc' = "slice"
            /\ err' = err
       ELSE /\ Raise("JSONDecodeError")
            /\ data' = data
    /\ UNCHANGED <<file, idx, d, entries, rows, out, num, ret>>

\* The except clause without its print.
ExceptSilent ==
    /\ pc = "except"
    /\ data' = <<>>
    /\ pc' = "slice"
    /\ UNCHANGED <<file, idx, d, entries, rows, out, err, num, ret>>

Except ==
    /\ pc = "except"
    /\ out' = Append(out, Line(NotFoundMsg))
    /\ data' = <<>>
    /\ pc' = "slice"
    /\ UNCHANGED <<file, idx, d, entries, rows, err, num, ret>>

SliceData ==
    /\ pc = "slice"
    /\ data' = Slice(data)
    /\ pc' = "for"
    /\ UNCHANGED <<file, idx, d, entries, rows, out, err, num, ret>>

\* for d in data: the next element, or the end of the script.
ForNext ==
    /\ pc = "for"
    /\ IF idx < Len(data)
       THEN /\ idx' = idx + 1
            /\ d' = data[idx + 1]
            /\ pc' = "entries"
       ELSE /\ pc' = "done"
            /\ UNCHANGED <<idx, d>>
    /\ UNCHANGED <<file, data, entries, rows, out, err, num, ret>>

\* The loop body with its first print() moved above d["entries"].
GetEntriesAfterBlank ==
    /\ pc = "entries"
    /\ IF "entries" \in DOMAIN d
       THEN /\ entries' = d.entries
            /\ pc' = "rows"
            /\ err' = err
       ELSE /\ Raise("KeyError")
            /\ entries' = entries
    /\ out' = Append(out, BlankLine)
    /\ UNCHANGED <<file, data, idx, d, rows, num, ret>>

GetEntries ==
    /\ pc = "entries"
    /\ IF "entries" \in DOMAIN d
       THEN /\ entries' = d.entries
            /\ pc' = "rows"
            /\ err' = err
       ELSE /\ Raise("KeyError")
            /\ entries' = entries
    /\ UNCHANGED <<file, data, idx, d, rows, out, num, ret>>

BuildRows ==
    /\ pc = "rows"
    /\ IF Rows(entries).err = "none"
       THEN /\ rows' = Rows(entries).rows
            /\ pc' = "print1"
            /\ err' = err
       ELSE /\ Raise(Rows(entries).err)
            /\ rows' = rows
    /\ UNCHANGED <<file, data, idx, d, entries, out, num, ret>>

PrintBlankBefore ==
    /\ pc = "print1"
    /\ out' = Append(out, BlankLine)
    /\ pc' = "print2"
    /\ UNCHANGED <<file, data, idx, d, entries, rows, err, num, ret>>

PrintHeader ==
    /\ pc = "print2"
    /\ IF "timestamp" \in DOMAIN d
       THEN /\ out' = Append(out, Line(Print2Args(RunAt, Str(d.timestamp))))
            /\ pc' = "print3"
            /\ err' = err
       ELSE /\ Raise("KeyError")
            /\ out' = out
    /\ UNCHANGED <<file, data, idx, d, entries, rows, num, ret>>

PrintBlankAfter ==
    /\ pc = "print3"
    /\ out' = Append(out, BlankLine)
    /\ pc' = "print4"
    /\ UNCHANGED <<file, data, idx, d, entries, rows, err, num, ret>>

PrintTable ==
    /\ pc = "print4"
    /\ out' = Append(out, TableOut(rows))
    /\ pc' = "print5"
    /\ UNCHANGED <<file, data, idx, d, entries, rows, err, num, ret>>

PrintBlankLast ==
    /\ pc = "print5"
    /\ out' = Append(out, BlankLine)
    /\ pc' = "for"
    /\ UNCHANGED <<file, data, idx, d, entries, rows, err, num, ret>>

Next ==
    \/ Open
    \/ Load
    \/ Except
    \/ SliceData
    \/ ForNext
    \/ GetEntries
    \/ BuildRows
    \/ PrintBlankBefore
    \/ PrintHeader
    \/ PrintBlankAfter
    \/ PrintTable
    \/ PrintBlankLast

Spec == Init /\ [][Next]_vars

(***************************************************************************)
(* fmt and fmt_diff on their own: one call on an integer argument.         *)
(***************************************************************************)
RECURSIVE Pow10(_)
Pow10(e) == IF e = 0 THEN 1 ELSE 10 * Pow10(e - 1)

FmtInputs ==
    { sg * (m * Pow10(e) + c) :
        sg \in {-1, 1}, m \in 0..MaxMant, e \in 0..MaxExp, c \in {-1, 0, 1} }
      \cup {1234567, -1234567, 42, -42}

InitFmt ==
    /\ file = Absent
    /\ data = <<>>
    /\ idx = 0
    /\ d = <<>>
    /\ entries = <<>>
    /\ rows = <<>>
    /\ out = <<>>
    /\ pc = "call"
    /\ err = "none"
    /\ num \in {JInt(n) : n \in FmtInputs}
    /\ ret = NoRet

CallFmt ==
    /\ pc = "call"
    /\ ret' = fmt(num)
    /\ pc' = "fmt"
    /\ UNCHANGED <<file, data, idx, d, entries, rows, out, err, num>>

CallFmtDiff ==
    /\ pc = "call"
    /\ ret' = fmt_diff(num)
    /\ pc' = "fmt_diff"
    /\ UNCHANGED <<file, data, idx, d, entries, rows, out, err, num>>

NextFmt ==
    \/ CallFmt
    \/ CallFmtDiff

SpecFmt == InitFmt /\ [][NextFmt]_vars

(***************************************************************************)
(* Vocabulary of the properties.                                           *)
(***************************************************************************)
Present == file.exists /\ file.valid

Content == file.content

\* How many records the specification says are rendered.
Shown == IF Len(Content) < 3 THEN Len(Content) ELSE 3

IsPrefix(a, b) == Len(a) <= Len(b) /\ a = SubSeq(b, 1, Len(a))

WellFormedMeas(m) ==
    /\ "value" \in DOMAIN m
    /\ "diff" \in DOMAIN m
    /\ m.value.t = "int"
    /\ m.diff.t = "int"

WellFormedRun(r) ==
    /\ "timestamp" \in DOMAIN r
    /\ "entries" \in DOMAIN r
    /\ r.timestamp.t = "str"
    /\ \A i \in DOMAIN r.entries : WellFormedMeas(r.entries[i][2])

\* A record the script gets through: every key is there, and no number is a
\* string or null.
RenderableMeas(m) ==
    /\ "value" \in DOMAIN m
    /\ "diff" \in DOMAIN m
    /\ m.value.t \in {"int", "float"}
    /\ m.diff.t \in {"int", "float"}

RenderableRun(r) ==
    /\ "timestamp" \in DOMAIN r
    /\ "entries" \in DOMAIN r
    /\ \A i \in DOMAIN r.entries : RenderableMeas(r.entries[i][2])

HeaderLine(ts) ==
    [kind |-> "line",
     text |-> <<"#", "#", " ", "R", "u", "n", " ", "a", "t", " ">> \o ts]

Blank == [kind |-> "line", text |-> <<>>]

NotFoundLine ==
    [kind |-> "line",
     text |-> <<"F", "i", "l", "e", " ", "n", "o", "t", " ", "f", "o", "u",
                "n", "d", ".", " ", "N", "o", " ", "l", "o", "g", "s", " ",
                "t", "o", " ", "d", "i", "s", "p", "l", "a", "y", ".">>]

TableOf(r) ==
    [kind |-> "table",
     table |-> [rows |-> Rows(r.entries).rows,
                headers |-> <<"Instruction", "Compute Units", "Diff">>,
                tablefmt |-> "github"]]

\* The five print events of one run.
Block(r) == <<Blank, HeaderLine(Str(r.timestamp)), Blank, TableOf(r), Blank>>

RECURSIVE Blocks(_)
Blocks(rs) == IF rs = <<>> THEN <<>> ELSE Block(Head(rs)) \o Blocks(Tail(rs))

(***************************************************************************)
(* C1: of a log of n well-formed records the script renders exactly the    *)
(* records 1..min(3, n), in file order, one block each: it never fails, it *)
(* stops only when done (the list comprehension at "rows" steps either to  *)
(* "print1" or to "error", and "error" is excluded), and at the end the    *)
(* output holds min(3, n) blocks whose i-th header and table are those of  *)
(* record i (nothing when n = 0).                                          *)
(***************************************************************************)
C1_FirstThreeRendered ==
    (Present /\ \A i \in DOMAIN Content : WellFormedRun(Content[i])) =>
        /\ pc # "error"
        /\ pc \in {"done", "rows"} \/ ENABLED Next
        /\ pc = "done" =>
             /\ Len(out) = 5 * Shown
             /\ \A i \in 1..Shown :
                  /\ out[5 * (i - 1) + 2] = HeaderLine(Content[i].timestamp.s)
                  /\ out[5 * (i - 1) + 4] = TableOf(Content[i])
             /\ \A j \in DOMAIN out :
                  j % 5 \notin {2, 4} => out[j] = Blank

C1_Witness ==
    /\ Present
    /\ pc = "done"
    /\ Len(Content) = 4
    /\ \A i \in DOMAIN Content : WellFormedRun(Content[i])
    /\ Content[4] \notin {Content[1], Content[2], Content[3]}
    /\ Len(out) = 15

(***************************************************************************)
(* C10: records after the third are never inspected: when the first three  *)
(* records are well formed the script never fails and ends with the blocks *)
(* of those three, whatever records 4..n hold; and a data-shape error is   *)
(* raised only while the loop is at one of the first three records, which  *)
(* is then not well formed.                                                *)
(***************************************************************************)
C10_TailNeverInspected ==
    Present =>
        /\ (/\ Len(Content) >= 3
            /\ \A i \in 1..3 : WellFormedRun(Content[i])) =>
               /\ pc # "error"
               /\ pc = "done" => out = Blocks(SubSeq(Content, 1, 3))
        /\ pc = "error" =>
               /\ idx \in 1..Shown
               /\ d = Content[idx]
               /\ ~WellFormedRun(Content[idx])
        /\ idx <= 3

C10_Witness ==
    /\ Present
    /\ pc = "done"
    /\ Len(Content) = 4
    /\ \A i \in 1..3 : WellFormedRun(Content[i])
    /\ "entries" \notin DOMAIN Content[4]
    /\ out = Blocks(SubSeq(Content, 1, 3))

(***************************************************************************)
(* C6: when the file exists and every selected record is well formed, the  *)
(* output is at every moment a prefix of: for each selected run in file    *)
(* order, a blank line, the header with that run's timestamp, a blank      *)
(* line, that run's table, a blank line; at the end it is all of it; and   *)
(* the file-not-found message is never printed.                            *)
(***************************************************************************)
C6_BlocksInOrder ==
    (Present /\ \A i \in 1..Shown : WellFormedRun(Content[i])) =>
        /\ IsPrefix(out, Blocks(SubSeq(Content, 1, Shown)))
        /\ pc = "done" => out = Blocks(SubSeq(Content, 1, Shown))
        /\ pc \in {"entries", "rows", "print1"} => Len(out) = 5 * (idx - 1)
        /\ \A j \in DOMAIN out : out[j] # NotFoundLine

C6_Witness ==
    /\ Present
    /\ pc = "done"
    /\ Shown = 3
    /\ \A i \in 1..3 : WellFormedRun(Content[i])
    /\ Content[1] # Content[2]
    /\ Content[2] # Content[3]
    /\ out[2] = HeaderLine(<<"T", "1">>)
    /\ out[7] # out[2]
    /\ Len(out) = 15

(***************************************************************************)
(* C5: when no file exists the whole output is the one line `File not      *)
(* found. No logs to display.`: the script never fails, the records are    *)
(* the empty sequence, no header or table is printed, and it ends done.    *)
(***************************************************************************)
C5_FileNotFoundRecovered ==
    ~file.exists =>
        /\ pc # "error"
        /\ err = "none"
        /\ data = <<>>
        /\ pc = "done" \/ ENABLED Next
        /\ pc \in {"open", "except"} => out = <<>>
        /\ pc \notin {"open", "except"} => out = <<NotFoundLine>>

C5_Witness ==
    /\ ~file.exists
    /\ pc = "done"
    /\ out = <<NotFoundLine>>
    /\ data = <<>>

(***************************************************************************)
(* C7: when the file exists and is not valid JSON the script ends in the   *)
(* error state with JSONDecodeError: it never prints anything (not the     *)
(* file-not-found message, no header, no table) and never goes on with an  *)
(* empty record sequence.                                                  *)
(***************************************************************************)
C7_MalformedJsonFatal ==
    (file.exists /\ ~file.valid) =>
        /\ out = <<>>
        /\ pc \in {"open", "load", "error"}
        /\ pc = "error" => err = "JSONDecodeError"
        /\ pc = "error" \/ ENABLED Next

C7_Witness ==
    /\ file.exists
    /\ ~file.valid
    /\ pc = "error"
    /\ err = "JSONDecodeError"
    /\ out = <<>>

(***************************************************************************)
(* C2: once the rows of a run are built there is exactly one row per key   *)
(* of `entries`, each row holds its key's formatted value and diff, and    *)
(* the rows are in strictly ascending order of the keys (by code point:    *)
(* "B" < "a" < "ab" < "b"), whatever order the map's items came in.        *)
(***************************************************************************)
KeyRank(k) ==
    CASE k = <<"B">> -> 1
      [] k = <<"a">> -> 2
      [] k = <<"a", "b">> -> 3
      [] k = <<"b">> -> 4

C2_RowsSortedByKey ==
    pc \in {"print1", "print2", "print3", "print4", "print5"} =>
        /\ Len(rows) = Len(entries)
        /\ \A i \in DOMAIN entries :
             \E j \in DOMAIN rows :
                rows[j] = <<entries[i][1], fmt(entries[i][2].value).s,
                            fmt_diff(entries[i][2].diff).s>>
        /\ \A i, j \in DOMAIN rows :
             i < j => KeyRank(rows[i][1]) < KeyRank(rows[j][1])

C2_Witness ==
    /\ pc = "print1"
    /\ Len(entries) = 3
    /\ entries[1][1] = <<"b">>
    /\ entries[2][1] = <<"a", "b">>
    /\ entries[3][1] = <<"B">>
    /\ rows[1][1] = <<"B">>
    /\ rows[2][1] = <<"a", "b">>
    /\ rows[3][1] = <<"b">>

(***************************************************************************)
(* C3: for every integer n, fmt_diff(n) is "+" followed by fmt(n) when     *)
(* n > 0 and is fmt(n) when n <= 0: zero is "0" with no sign, a negative   *)
(* number carries only its minus sign.                                     *)
(***************************************************************************)
DigitChars == {"0", "1", "2", "3", "4", "5", "6", "7", "8", "9"}

C3_FmtDiffSign ==
    pc = "fmt_diff" =>
        /\ ret.err = "none"
        /\ num.n > 0 => ret.s = <<"+">> \o fmt(num).s
        /\ num.n <= 0 => ret.s = fmt(num).s
        /\ num.n > 0 => ret.s[1] = "+" /\ ret.s[2] \in DigitChars
        /\ num.n = 0 => ret.s = <<"0">>
        /\ num.n < 0 => ret.s[1] = "-" /\ ret.s[2] \in DigitChars

C3_Witness ==
    /\ pc = "fmt_diff"
    /\ num = JInt(42)
    /\ ret.s = <<"+", "4", "2">>

(***************************************************************************)
(* C4: for every integer n, fmt(n) is the decimal digits of |n| split from *)
(* the right into groups of three by commas: a comma stands exactly at     *)
(* every fourth place from the right, never first; there is no leading     *)
(* zero; without the commas the digits read |n|; a minus sign leads        *)
(* exactly when n < 0; fmt(0) = "0", fmt(1000) = "1,000" and               *)
(* fmt(1234567) = "1,234,567".                                             *)
(***************************************************************************)
DigitVal(c) ==
    CASE c = "0" -> 0 [] c = "1" -> 1 [] c = "2" -> 2 [] c = "3" -> 3
      [] c = "4" -> 4 [] c = "5" -> 5 [] c = "6" -> 6 [] c = "7" -> 7
      [] c = "8" -> 8 [] c = "9" -> 9

RECURSIVE ParseDigits(_)
ParseDigits(s) ==
    IF s = <<>> THEN 0
    ELSE 10 * ParseDigits(SubSeq(s, 1, Len(s) - 1)) + DigitVal(s[Len(s)])

IsNotComma(c) == c # ","

C4_FmtGroupsByThree ==
    pc = "fmt" =>
        LET s == ret.s
            body == IF num.n < 0 THEN Tail(s) ELSE s
            L == Len(body)
        IN  /\ ret.err = "none"
            /\ num.n < 0 => s[1] = "-"
            /\ L >= 1
            /\ body[1] \in DigitChars
            /\ body[1] = "0" => L = 1
            /\ \A k \in 1..L :
                 /\ (body[L - k + 1] = ",") <=> (k % 4 = 0)
                 /\ body[L - k + 1] \in DigitChars \cup {","}
            /\ ParseDigits(SelectSeq(body, IsNotComma)) = Abs(num.n)
            /\ num.n = 0 => s = <<"0">>
            /\ num.n = 1000 => s = <<"1", ",", "0", "0", "0">>
            /\ num.n = 1234567 =>
                 s = <<"1", ",", "2", "3", "4", ",", "5", "6", "7">>

C4_Witness ==
    /\ pc = "fmt"
    /\ num = JInt(1234567)
    /\ ret.s = <<"1", ",", "2", "3", "4", ",", "5", "6", "7">>

(***************************************************************************)
(* C8 as stated: the script completes normally only when every selected    *)
(* record has `entries`, `value`, `diff` and `timestamp`, integer values   *)
(* and diffs, and a string timestamp.                                      *)
(***************************************************************************)
C8_AsStated ==
    (Present /\ pc = "done") => \A i \in 1..Shown : WellFormedRun(Content[i])

(***************************************************************************)
(* C8 amended: file-not-found is the only recovered failure, and a         *)
(* selected record with a missing `entries`, `value`, `diff` or            *)
(* `timestamp` key, or with a `value` or `diff` that is a string or null,  *)
(* ends the script in the error state; a float `value` or `diff` is        *)
(* formatted and a timestamp that is not a string is printed, and neither  *)
(* is an error.                                                            *)
(***************************************************************************)
C8_FatalShapes ==
    /\ pc = "done" =>
         \/ ~file.exists
         \/ Present /\ \A i \in 1..Shown : RenderableRun(Content[i])
    /\ (Present /\ pc = "error") =>
         /\ idx \in 1..Shown
         /\ ~RenderableRun(Content[idx])
         /\ err \in {"KeyError", "TypeError", "ValueError"}
    /\ (Present /\ \A i \in 1..Shown : RenderableRun(Content[i])) =>
         pc # "error"

C8_Witness ==
    /\ Present
    /\ pc = "error"
    /\ err = "ValueError"
    /\ idx = 2
    /\ out = Block(Content[1])

(***************************************************************************)
(* C9: output is never retracted (every step leaves the output so far as a *)
(* prefix of the new output), and when selected run i fails the output is  *)
(* the complete blocks of runs 1..i-1 followed by nothing of run i when    *)
(* `entries`, a `value` or a `diff` fails, and by the one leading blank    *)
(* line of run i when the timestamp is missing.                            *)
(***************************************************************************)
C9_AtError ==
    (Present /\ pc = "error") =>
        /\ idx \in 1..Shown
        /\ IF "entries" \in DOMAIN Content[idx]
              /\ Rows(Content[idx].entries).err = "none"
           THEN /\ "timestamp" \notin DOMAIN Content[idx]
                /\ out = Blocks(SubSeq(Content, 1, idx - 1)) \o <<Blank>>
           ELSE out = Blocks(SubSeq(Content, 1, idx - 1))

C9_PartialOutput == [][IsPrefix(out, out')]_vars /\ []C9_AtError

C9_Witness ==
    /\ Present
    /\ pc = "error"
    /\ idx = 3
    /\ "timestamp" \notin DOMAIN d
    /\ out = Block(Content[1]) \o Block(Content[2]) \o <<Blank>>
    /\ Content[1] # Content[2]

====
